---- MODULE Spec2Model ----
(***************************************************************************)
(* Model of pdf_renamer/renamer.py: the Renamer class (rename and its      *)
(* helpers) and the batch function run.                                    *)
(*                                                                         *)
(* A Python str is a sequence of one-character strings.  A pathlib.Path is *)
(* a sequence of components, each component a str; an absolute path starts *)
(* with the component Root.  An Optional value is a sequence of length 0   *)
(* (None) or 1 (the value).  The result of a call that may raise is a      *)
(* record with a field exc: NoExc when it returned, else the exception.    *)
(***************************************************************************)
EXTENDS Integers, Sequences, FiniteSets, TLC

VARIABLES
    input_dir,    \* run's parameter input_dir (a Path)
    output_dir,   \* run's parameter output_dir (a Path)
    dirs,         \* the directories that exist on the filesystem
    fsfiles,      \* the regular files that exist: path -> content
    fs0,          \* fsfiles when the program started
    files,        \* run's local list `files` (the glob result)
    count,        \* number of loop iterations of run begun so far
    pc,           \* where run (or the direct caller of rename) stands
    rc,           \* run's return value, as an Optional
    last          \* the latest call of rename and the move after it, as an Optional

vars == <<input_dir, output_dir, dirs, fsfiles, fs0, files, count, pc, rc, last>>

---------------------------------------------------------------------------
(* Bounds of the model. *)

\* longest filename stem and longest model-supplied title or publisher
MaxLen == 3
\* most *.pdf files in the input directory
MaxFiles == 2
\* most files already in the output directory under the colliding names
MaxColl == 2

---------------------------------------------------------------------------
(* Python str *)

Whitespace == {" "}
Alphabet == {"a", ",", " ", "_", "-"}
Digits == <<"0", "1", "2", "3", "4", "5", "6", "7", "8", "9">>

RECURSIVE Strings(_)
Strings(n) ==
    IF n = 0 THEN {<<>>}
    ELSE LET shorter == Strings(n - 1)
         IN  shorter \cup {Append(s, c) : s \in {t \in shorter : Len(t) = n - 1},
                                          c \in Alphabet}

None == <<>>
Some(x) == <<x>>
NoExc == "none"

\* str.lstrip(): drop the leading whitespace
RECURSIVE LStrip(_)
LStrip(s) ==
    IF s # <<>> /\ Head(s) \in Whitespace THEN LStrip(Tail(s)) ELSE s

\* str.rstrip(): drop the trailing whitespace
RECURSIVE RStrip(_)
RStrip(s) ==
    IF s # <<>> /\ s[Len(s)] \in Whitespace
    THEN RStrip(SubSeq(s, 1, Len(s) - 1))
    ELSE s

\* str.strip()
Strip(s) == RStrip(LStrip(s))

\* the largest index of sep in s, 0 when sep is not in s (str.rfind, 1-based)
RFind(s, sep) ==
    IF \E i \in 1..Len(s) : s[i] = sep
    THEN CHOOSE i \in 1..Len(s) :
             s[i] = sep /\ \A j \in (i + 1)..Len(s) : s[j] # sep
    ELSE 0

\* s.rsplit(sep, 1): at most one split, at the last occurrence of sep
RSplit1(s, sep) ==
    LET i == RFind(s, sep)
    IN  IF i = 0 THEN <<s>>
        ELSE <<SubSeq(s, 1, i - 1), SubSeq(s, i + 1, Len(s))>>

\* s.split(): the maximal runs of non-whitespace characters, in order
RECURSIVE SplitWs(_, _)
SplitWs(s, cur) ==
    IF s = <<>> THEN (IF cur = <<>> THEN <<>> ELSE <<cur>>)
    ELSE IF Head(s) \in Whitespace
         THEN (IF cur = <<>> THEN <<>> ELSE <<cur>>) \o SplitWs(Tail(s), <<>>)
         ELSE SplitWs(Tail(s), Append(cur, Head(s)))

Split(s) == SplitWs(s, <<>>)

\* sep.join(words)
RECURSIVE Join(_, _)
Join(sep, words) ==
    IF words = <<>> THEN <<>>
    ELSE IF Len(words) = 1 THEN words[1]
         ELSE words[1] \o sep \o Join(sep, Tail(words))

\* str(n) for n >= 0
RECURSIVE Str(_)
Str(n) ==
    IF n < 10 THEN <<Digits[n + 1]>>
    ELSE Append(Str(n \div 10), Digits[(n % 10) + 1])

IsDigit(c) == \E i \in 1..10 : Digits[i] = c
DigitVal(c) == (CHOOSE i \in 1..10 : Digits[i] = c) - 1

\* int(s) for a string of digits
RECURSIVE ParseInt(_)
ParseInt(s) ==
    IF s = <<>> THEN 0
    ELSE 10 * ParseInt(SubSeq(s, 1, Len(s) - 1)) + DigitVal(s[Len(s)])

\* n as a decimal string zero-padded to width w
RECURSIVE ZeroPad(_, _)
ZeroPad(n, w) ==
    LET s == Str(n) IN
    IF Len(s) >= w THEN s ELSE <<"0">> \o ZeroPad(n, w - 1)

---------------------------------------------------------------------------
(* datetime.date *)

IsLeap(y) == (y % 4 = 0 /\ y % 100 # 0) \/ y % 400 = 0

DaysInMonth(y, m) ==
    IF m = 2 THEN (IF IsLeap(y) THEN 29 ELSE 28)
    ELSE IF m \in {4, 6, 9, 11} THEN 30 ELSE 31

\* date.fromisoformat(s): YYYY-MM-DD naming a day of the calendar, else
\* ValueError
FromIsoFormat(s) ==
    IF /\ Len(s) = 10
       /\ s[5] = "-" /\ s[8] = "-"
       /\ \A i \in {1, 2, 3, 4, 6, 7, 9, 10} : IsDigit(s[i])
    THEN LET y == ParseInt(SubSeq(s, 1, 4))
             m == ParseInt(SubSeq(s, 6, 7))
             d == ParseInt(SubSeq(s, 9, 10))
         IN  IF y >= 1 /\ m \in 1..12 /\ d \in 1..DaysInMonth(y, m)
             THEN [exc |-> NoExc, val |-> [year |-> y, month |-> m, day |-> d]]
             ELSE [exc |-> "ValueError", val |-> [year |-> 0, month |-> 0, day |-> 0]]
    ELSE [exc |-> "ValueError", val |-> [year |-> 0, month |-> 0, day |-> 0]]

\* d.strftime(fmt) for the directives %Y, %m, %d and %%
RECURSIVE Strftime(_, _)
Strftime(d, fmt) ==
    IF fmt = <<>> THEN <<>>
    ELSE IF Head(fmt) = "%" /\ Len(fmt) >= 2
         THEN LET rest == Strftime(d, SubSeq(fmt, 3, Len(fmt)))
              IN  CASE fmt[2] = "Y" -> ZeroPad(d.year, 4) \o rest
                    [] fmt[2] = "m" -> ZeroPad(d.month, 2) \o rest
                    [] fmt[2] = "d" -> ZeroPad(d.day, 2) \o rest
                    [] fmt[2] = "%" -> <<"%">> \o rest
                    [] OTHER -> <<"%", fmt[2]>> \o rest
         ELSE <<Head(fmt)>> \o Strftime(d, Tail(fmt))

\* the date_format the Renamer is constructed with
date_format == <<"%", "Y", "%", "m", "%", "d">>

---------------------------------------------------------------------------
(* pathlib.Path *)

Root == <<"/">>

IsAbsolute(p) == p # <<>> /\ p[1] = Root

\* a / b: an absolute right operand replaces the left one
JoinPath(a, b) == IF IsAbsolute(b) THEN b ELSE a \o b

\* p.name
Name(p) == p[Len(p)]

\* p.parent
Parent(p) == SubSeq(p, 1, Len(p) - 1)

\* p.suffix: from the last dot of the name, unless that dot is the first or
\* the last character
Suffix(p) ==
    LET n == Name(p)
        i == RFind(n, ".")
    IN  IF 1 < i /\ i < Len(n) THEN SubSeq(n, i, Len(n)) ELSE <<>>

\* p.stem
Stem(p) ==
    LET n == Name(p)
        i == RFind(n, ".")
    IN  IF 1 < i /\ i < Len(n) THEN SubSeq(n, 1, i - 1) ELSE n

\* p.exists()
Exists(p) == p \in dirs \/ p \in DOMAIN fsfiles

\* fnmatch of a name against "*.pdf"
MatchesPdf(n) ==
    Len(n) >= 4 /\ SubSeq(n, Len(n) - 3, Len(n)) = <<".", "p", "d", "f">>

\* the regular files directly inside directory d
Children(d) == {p \in DOMAIN fsfiles : Len(p) = Len(d) + 1 /\ Parent(p) = d}

---------------------------------------------------------------------------
(* The model's replies.  message.content is either text that json.loads    *)
(* rejects (json = FALSE) or the text of a JSON object (obj).              *)

Malformed == [json |-> FALSE, obj |-> <<>>]
Object(o) == [json |-> TRUE, obj |-> o]

ReasoningText == <<"a">>

\* values the model may put in "end_date"
EndDates ==
    { <<>>,
      <<"a", ",", " ", "a">>,
      <<"2", "0", "2", "5", "-", "1", "3", "-", "0", "1">>,
      <<"2", "0", "2", "5", "-", "0", "2", "-", "3", "0">>,
      <<"2", "0", "2", "5", "-", "0", "2", "-", "1", "0">> }

DateMessages ==
    {Malformed, Object([reasoning |-> ReasoningText])}
        \cup {Object([end_date |-> d, reasoning |-> ReasoningText]) : d \in EndDates}

\* values the model may put in "title" and "publisher"
ModelTitles == { <<>>, <<" ">>, <<"a">>, <<" ", "a", " ", " ", ",", "a", " ">> }
ModelPublishers == { <<>>, <<",">>, <<"a", " ", "-">> }

PublisherMessages ==
    {Malformed, Object([reasoning |-> ReasoningText])}
        \cup {Object([title |-> t, reasoning |-> ReasoningText]) : t \in ModelTitles}
        \cup {Object([publisher |-> p, reasoning |-> ReasoningText]) :
                  p \in ModelPublishers}
        \cup {Object([publisher |-> p, title |-> t, reasoning |-> ReasoningText]) :
                  p \in ModelPublishers, t \in ModelTitles}

---------------------------------------------------------------------------
(* class Renamer *)

NoDate == <<"n", "o", "-", "d", "a", "t", "e">>
NoPublisher == <<"n", "o", "-", "p", "u", "b", "l", "i", "s", "h", "e", "r">>

\* _invoke_model: the parsed answer, or None after a JSONDecodeError
_invoke_model(message) ==
    IF message.json THEN Some(message.obj) ELSE None

\* _extract_publish_date, were a ValueError of fromisoformat left to propagate
_extract_publish_date_mutant(message) ==
    LET answer == _invoke_model(message) IN
    IF answer = None THEN [exc |-> "TypeError", val |-> None]
    ELSE LET a == answer[1] IN
         IF "end_date" \in DOMAIN a /\ a.end_date # <<>>
         THEN LET d == FromIsoFormat(a.end_date) IN
              IF d.exc # NoExc THEN [exc |-> d.exc, val |-> None]
              ELSE [exc |-> NoExc, val |-> Some(Strftime(d.val, date_format))]
         ELSE [exc |-> NoExc, val |-> None]

\* _extract_publish_date: `"end_date" in answer` raises TypeError when answer
\* is None
_extract_publish_date(message) ==
    LET answer == _invoke_model(message) IN
    IF answer = None THEN [exc |-> "TypeError", val |-> None]
    ELSE LET a == answer[1] IN
         IF "end_date" \in DOMAIN a /\ a.end_date # <<>>
         THEN LET d == FromIsoFormat(a.end_date) IN
              IF d.exc # NoExc THEN [exc |-> NoExc, val |-> None]
              ELSE [exc |-> NoExc, val |-> Some(Strftime(d.val, date_format))]
         ELSE [exc |-> NoExc, val |-> None]

\* _extract_publisher: `"publisher" in answer` raises TypeError when answer
\* is None
_extract_publisher(message) ==
    LET answer == _invoke_model(message) IN
    IF answer = None
    THEN [exc |-> "TypeError", title |-> None, publisher |-> None]
    ELSE LET a == answer[1] IN
         [exc |-> NoExc,
          publisher |-> IF "publisher" \in DOMAIN a /\ a.publisher # <<>>
                        THEN Some(a.publisher) ELSE None,
          title |-> IF "title" \in DOMAIN a /\ a.title # <<>>
                    THEN Some(a.title) ELSE None]

\* [x.strip() for x in parts]
StripAll(parts) == [i \in 1..Len(parts) |-> Strip(parts[i])]

\* _split_publisher_and_title, were the parts left unstripped
_split_publisher_and_title_mutant(filename) ==
    LET parts1 == RSplit1(filename, "_")
        parts2 == RSplit1(filename, "-")
    IN  IF Len(parts1) = 1
        THEN (IF Len(parts2) = 1 THEN Append(parts2, NoPublisher) ELSE parts2)
        ELSE parts1

\* _split_publisher_and_title: returns <<title, publisher>>
_split_publisher_and_title(filename) ==
    LET parts1 == StripAll(RSplit1(filename, "_"))
        parts2 == StripAll(RSplit1(filename, "-"))
    IN  IF Len(parts1) = 1
        THEN (IF Len(parts2) = 1 THEN Append(parts2, NoPublisher) ELSE parts2)
        ELSE parts1

\* "-".join([w for w in s.split() if w]), were the words joined by "_"
KebabMutant(s) == Join(<<"_">>, SelectSeq(Split(s), LAMBDA w : w # <<>>))

\* "-".join([w for w in s.split() if w])
Kebab(s) == Join(<<"-">>, SelectSeq(Split(s), LAMBDA w : w # <<>>))

\* the name _make_unique_filename tries: n = 0 for the first candidate, else
\* the counter
CandidateName(in_path, publish_date, publisher, title, n) ==
    publish_date \o <<"_">> \o publisher \o <<"_">> \o title
        \o (IF n = 0 THEN <<>> ELSE <<"_">> \o Str(n))
        \o Suffix(in_path)

\* the while loop of _make_unique_filename, entered with count = n
RECURSIVE UniqueLoop(_, _, _, _, _, _, _)
UniqueLoop(out_path, in_path, publish_date, publisher, title, candidate, n) ==
    IF Exists(candidate)
    THEN UniqueLoop(out_path, in_path, publish_date, publisher, title,
                    JoinPath(out_path,
                             <<CandidateName(in_path, publish_date, publisher, title, n)>>),
                    n + 1)
    ELSE candidate

\* _make_unique_filename, were the counter started at 2
_make_unique_filename_mutant(out_path, in_path, publish_date, publisher, title) ==
    UniqueLoop(out_path, in_path, publish_date, publisher, title,
               JoinPath(out_path,
                        <<CandidateName(in_path, publish_date, publisher, title, 0)>>),
               2)

\* _make_unique_filename
_make_unique_filename(out_path, in_path, publish_date, publisher, title) ==
    UniqueLoop(out_path, in_path, publish_date, publisher, title,
               JoinPath(out_path,
                        <<CandidateName(in_path, publish_date, publisher, title, 0)>>),
               1)

\* a or b, for an Optional str a
Or(a, b) == IF a # None /\ a[1] # <<>> THEN a[1] ELSE b

\* what a call of rename that raised leaves behind
Raised(step, exc, date) ==
    [exc |-> exc, step |-> step, date |-> date, publish_date |-> <<>>,
     m_title |-> None, m_publisher |-> None, raw_title |-> <<>>,
     raw_publisher |-> <<>>, title |-> <<>>, publisher |-> <<>>,
     renamed |-> <<>>]

\* rename(in_path); load_ok says whether PyPDFLoader yields the first page
rename(out_path, in_path, load_ok, date_msg, pub_msg) ==
    IF ~load_ok THEN Raised("load", "LoaderError", None)
    ELSE
    LET d == _extract_publish_date(date_msg) IN
    IF d.exc # NoExc THEN Raised("date", d.exc, None)
    ELSE
    LET publish_date == IF d.val = None THEN NoDate ELSE d.val[1]
        p == _extract_publisher(pub_msg)
    IN
    IF p.exc # NoExc THEN Raised("publisher", p.exc, d.val)
    ELSE
    LET heuristics == p.title = None \/ p.publisher = None
        h == _split_publisher_and_title(Stem(in_path))
        title == IF heuristics THEN Or(p.title, h[1]) ELSE p.title[1]
        publisher == IF heuristics THEN Or(p.publisher, h[2]) ELSE p.publisher[1]
        k_title == Kebab(title)
        k_publisher == Kebab(publisher)
    IN  [exc |-> NoExc, step |-> "none", date |-> d.val,
         publish_date |-> publish_date,
         m_title |-> p.title, m_publisher |-> p.publisher,
         raw_title |-> title, raw_publisher |-> publisher,
         title |-> k_title, publisher |-> k_publisher,
         renamed |-> _make_unique_filename(out_path, in_path, publish_date,
                                           k_publisher, k_title)]

---------------------------------------------------------------------------
(* The filesystem *)

Cwd == <<>>
InDir == << <<"i">> >>
OutAbs == <<Root, <<"o">>>>
OutRel == << <<"o">> >>
OutputDirs == {OutAbs, OutRel, Cwd}

Ext == <<".", "p", "d", "f">>
NotPdf == <<"a", ".", "t", "x", "t">>

\* src.replace(dst) (os.replace); os_err: the operating system refuses the
\* rename (permissions, a destination on another device)
Replace(src, dst, os_err) ==
    IF Parent(dst) \notin dirs THEN [exc |-> "FileNotFoundError", fs |-> fsfiles]
    ELSE IF dst \in dirs THEN [exc |-> "IsADirectoryError", fs |-> fsfiles]
    ELSE IF os_err THEN [exc |-> "OSError", fs |-> fsfiles]
    ELSE [exc |-> NoExc,
          fs |-> [p \in (DOMAIN fsfiles \ {src}) \cup {dst} |->
                     IF p = dst THEN fsfiles[src] ELSE fsfiles[p]]]

\* the orders in which a directory scan may list the set S
Orders(S) ==
    {f \in [1..Cardinality(S) -> S] :
         \A i, j \in 1..Cardinality(S) : i # j => f[i] # f[j]}

\* input_dir.glob("*.pdf")
Glob(d) == {p \in Children(d) : MatchesPdf(Name(p))}

---------------------------------------------------------------------------
(* run(input_dir, output_dir, model, date_format) *)

\* the early returns of run, were the output directory checked first
RunGuardMutant(found) ==
    IF ~Exists(output_dir) THEN Some(1)
    ELSE IF ~Exists(input_dir) THEN Some(0)
    ELSE IF found = <<>> THEN Some(0)
    ELSE None

\* the early returns of run: the value returned, None when the loop is entered
RunGuard(found) ==
    IF ~Exists(input_dir) THEN Some(0)
    ELSE IF found = <<>> THEN Some(0)
    ELSE IF ~Exists(output_dir) THEN Some(1)
    ELSE None

\* the replies the model gives during a batch
RunDateMessages ==
    {Malformed, Object([reasoning |-> ReasoningText])}
        \cup {Object([end_date |-> d, reasoning |-> ReasoningText]) :
                  d \in { <<>>,
                          <<"a", ",", " ", "a">>,
                          <<"2", "0", "2", "5", "-", "0", "2", "-", "1", "0">> }}

RunPublisherMessages ==
    {Malformed,
     Object([publisher |-> <<>>, title |-> <<>>, reasoning |-> ReasoningText]),
     Object([publisher |-> <<",">>, title |-> <<"a">>, reasoning |-> ReasoningText])}

\* the record kept in last: what rename did, and what the move after it did
Entry(r, in_path, date_msg, pub_msg, dst, dst_existed, outcome) ==
    r @@ [in_path |-> in_path, date_msg |-> date_msg, pub_msg |-> pub_msg,
          dst |-> dst, dst_existed |-> dst_existed, outcome |-> outcome]

\* lines 280-292: the guards, the glob and the construction of the Renamer
RunStart ==
    /\ pc = "start"
    /\ \E found \in Orders(IF Exists(input_dir) THEN Glob(input_dir) ELSE {}) :
           /\ files' = found
           /\ rc' = RunGuard(found)
           /\ pc' = IF RunGuard(found) = None THEN "loop" ELSE "returned"
    /\ UNCHANGED <<input_dir, output_dir, dirs, fsfiles, fs0, count, last>>

\* lines 293-301: one iteration of the loop over files
ProcessFile ==
    /\ pc = "loop"
    /\ count < Len(files)
    /\ \E load_ok \in BOOLEAN, date_msg \in RunDateMessages,
          pub_msg \in RunPublisherMessages, os_err \in BOOLEAN :
           LET file == files[count + 1]
               r == rename(output_dir, file, load_ok, date_msg, pub_msg)
               dst == JoinPath(output_dir, r.renamed)
               mv == Replace(file, dst, os_err)
           IN  /\ count' = count + 1
               /\ IF r.exc # NoExc
                  THEN /\ last' = Some(Entry(r, file, date_msg, pub_msg,
                                                   <<>>, FALSE, "skipped"))
                       /\ UNCHANGED <<fsfiles, pc>>
                  ELSE IF mv.exc # NoExc
                  THEN /\ last' = Some(Entry(r, file, date_msg, pub_msg,
                                                   dst, Exists(dst), "raised"))
                       /\ pc' = "raised"
                       /\ UNCHANGED fsfiles
                  ELSE /\ last' = Some(Entry(r, file, date_msg, pub_msg,
                                                   dst, Exists(dst), "moved"))
                       /\ fsfiles' = mv.fs
                       /\ UNCHANGED pc
    /\ UNCHANGED <<input_dir, output_dir, dirs, fs0, files, rc>>

\* lines 302-304: the loop is exhausted
RunReturn ==
    /\ pc = "loop"
    /\ count = Len(files)
    /\ rc' = Some(0)
    /\ pc' = "returned"
    /\ UNCHANGED <<input_dir, output_dir, dirs, fsfiles, fs0, files, count, last>>

\* the names of the *.pdf files a batch may find
RunStems == { <<"a", "_", ",">>, <<"a", " ", "_", ",">>, <<"a">> }
RunNames == {s \o Ext : s \in RunStems}

\* the n-th name of the family that date no-date, publisher "," and title "a"
\* resolve to
Colliding(n) == CandidateName(<<<<"a">> \o Ext>>, NoDate, <<",">>, <<"a">>, n)

\* the identity on a set of paths: every file holds its own original content
Own(paths) == [p \in paths |-> p]

Init ==
    \E in_exists \in BOOLEAN, names \in SUBSET RunNames, txt \in BOOLEAN,
       out \in OutputDirs, out_exists \in BOOLEAN, nested_exists \in BOOLEAN,
       old \in BOOLEAN, nested_old \in BOOLEAN :
        LET nested == JoinPath(out, out) IN
        /\ Cardinality(names) <= MaxFiles
        /\ ~in_exists => (names = {} /\ ~txt)
        /\ names # {} => txt
        /\ out = Cwd => out_exists
        /\ ~out_exists => (~old /\ ~nested_exists)
        /\ nested = out => ~nested_exists
        /\ nested_old => nested_exists
        /\ input_dir = InDir
        /\ output_dir = out
        /\ dirs = {Cwd, <<Root>>}
                    \cup (IF in_exists THEN {InDir} ELSE {})
                    \cup (IF out_exists THEN {out} ELSE {})
                    \cup (IF nested_exists THEN {nested} ELSE {})
        /\ fsfiles = Own({Append(InDir, n) : n \in names}
                           \cup (IF txt THEN {Append(InDir, NotPdf)} ELSE {})
                           \cup (IF old THEN {Append(out, Colliding(0))} ELSE {})
                           \cup (IF nested_old THEN {Append(nested, Colliding(0))}
                                 ELSE {}))
        /\ fs0 = fsfiles
        /\ files = <<>>
        /\ count = 0
        /\ pc = "start"
        /\ rc = None
        /\ last = None

Next == RunStart \/ ProcessFile \/ RunReturn

Spec == Init /\ [][Next]_vars

---------------------------------------------------------------------------
(* A direct call of Renamer.rename, as the unit tests make it: a Renamer   *)
(* constructed on out_path, one call of rename, no move.                   *)

TestRename ==
    /\ pc = "test"
    /\ \E load_ok \in BOOLEAN, date_msg \in DateMessages,
          pub_msg \in PublisherMessages :
           LET r == rename(output_dir, files[1], load_ok, date_msg, pub_msg)
           IN  last' = Some(Entry(r, files[1], date_msg, pub_msg, <<>>, FALSE,
                                  IF r.exc = NoExc THEN "returned" ELSE "raised"))
    /\ count' = 1
    /\ pc' = "tested"
    /\ UNCHANGED <<input_dir, output_dir, dirs, fsfiles, fs0, files, rc>>

\* the subsets of the colliding family of names
Families == SUBSET {Colliding(n) : n \in 0..MaxColl}

InitRename ==
    \E stem \in Strings(MaxLen), family \in Families :
        /\ (family = {} \/ stem \in RunStems)
        /\ input_dir = InDir
        /\ output_dir = OutAbs
        /\ dirs = {Cwd, <<Root>>, InDir, OutAbs}
        /\ fsfiles = Own({Append(InDir, stem \o Ext)}
                           \cup {Append(OutAbs, n) : n \in family})
        /\ fs0 = fsfiles
        /\ files = <<Append(InDir, stem \o Ext)>>
        /\ count = 0
        /\ pc = "test"
        /\ rc = None
        /\ last = None

SpecRename == InitRename /\ [][TestRename]_vars

---------------------------------------------------------------------------
(* Vocabulary of the properties *)

\* the latest call recorded
E == last[1]

Called == last # None

IsWs(c) == c \in Whitespace
NoWhitespace(s) == \A i \in 1..Len(s) : ~IsWs(s[i])

StartsWith(s, prefix) ==
    Len(s) >= Len(prefix) /\ SubSeq(s, 1, Len(prefix)) = prefix

Occurs(c, s) == \E i \in 1..Len(s) : s[i] = c

\* t is x without its leading and trailing whitespace
IsTrimOf(t, x) ==
    /\ t # <<>> => (~IsWs(t[1]) /\ ~IsWs(t[Len(t)]))
    /\ \E i \in 0..Len(x) :
           /\ i + Len(t) <= Len(x)
           /\ SubSeq(x, i + 1, i + Len(t)) = t
           /\ \A j \in (1..i) \cup ((i + Len(t) + 1)..Len(x)) : IsWs(x[j])

\* <<title, publisher>> are the two sides of the last occurrence of sep in
\* stem, each trimmed
IsLastSplit(title, publisher, stem, sep) ==
    \E i \in 1..Len(stem) :
        /\ stem[i] = sep
        /\ \A j \in (i + 1)..Len(stem) : stem[j] # sep
        /\ IsTrimOf(title, SubSeq(stem, 1, i - 1))
        /\ IsTrimOf(publisher, SubSeq(stem, i + 1, Len(stem)))

\* the heuristic splitter alone decided title and publisher
HeuristicsOnly == Called /\ E.exc = NoExc /\ E.m_title = None /\ E.m_publisher = None

\* where the i-th character of s, not whitespace, stands in the kebab-cased s:
\* after the non-whitespace characters before it and one hyphen per word
\* begun after the first
KebabPos(s, i) ==
    Cardinality({j \in 1..i : ~IsWs(s[j])})
        + Cardinality({j \in 2..i : /\ ~IsWs(s[j]) /\ IsWs(s[j - 1])
                                    /\ \E l \in 1..(j - 1) : ~IsWs(s[l])})

\* out is s with every whitespace run between two words collapsed into one
\* hyphen, the leading and trailing whitespace dropped, and every other
\* character kept in its order
IsKebabOf(out, s) ==
    LET nonws == {i \in 1..Len(s) : ~IsWs(s[i])} IN
    /\ NoWhitespace(out)
    /\ Len(out) = (IF nonws = {} THEN 0
                   ELSE KebabPos(s, CHOOSE i \in nonws : \A j \in nonws : j <= i))
    /\ \A i \in nonws :
           /\ out[KebabPos(s, i)] = s[i]
           /\ (i > 1 /\ IsWs(s[i - 1]) /\ KebabPos(s, i) > 1)
                  => out[KebabPos(s, i) - 1] = "-"
    /\ NoWhitespace(s) => out = s

\* the n-th name for the date, publisher and title of the latest call: the
\* counter, if any, stands before the extension of the input file
ExpectedName(n) ==
    E.publish_date \o <<"_">> \o E.publisher \o <<"_">> \o E.title
        \o (IF n = 0 THEN <<>> ELSE <<"_">> \o Str(n)) \o Suffix(E.in_path)

InOut(name) == Append(output_dir, name) \in DOMAIN fsfiles

\* the reply to the date prompt parsed, and its end_date is missing, empty or
\* not a calendar date
NullishEndDate(msg) ==
    /\ msg.json
    /\ \/ "end_date" \notin DOMAIN msg.obj
       \/ msg.obj.end_date = <<>>
       \/ msg.obj.end_date \in
              { <<"a", ",", " ", "a">>,
                <<"2", "0", "2", "5", "-", "1", "3", "-", "0", "1">>,
                <<"2", "0", "2", "5", "-", "0", "2", "-", "3", "0">> }

\* the *.pdf files the input directory held when the program started
Found0 == {p \in DOMAIN fs0 : Parent(p) = input_dir /\ MatchesPdf(Name(p))}

---------------------------------------------------------------------------
(* C1 *)

\* C1: when the reply to the date prompt or to the publisher/title prompt is
\* not parseable JSON, the extraction is recovered locally: rename raises
\* nothing and returns a path, the date of a malformed date reply is "no-date",
\* the fields of a malformed publisher reply are null, and the file is not
\* skipped.
C1_MalformedJsonRecovered ==
    (Called /\ E.step # "load" /\ (~E.date_msg.json \/ ~E.pub_msg.json))
        => /\ E.exc = NoExc
           /\ E.outcome # "skipped"
           /\ ~E.date_msg.json => (E.date = None /\ E.publish_date = NoDate)
           /\ ~E.pub_msg.json => (E.m_title = None /\ E.m_publisher = None)

---------------------------------------------------------------------------
(* C2 *)

\* C2: no exception of a file's processing (loading, model calls, rename-path
\* computation, the move) leaves run: the loop is never abandoned, and run
\* returns only after its last file.
C2_EveryExceptionSkipsOneFile ==
    /\ pc # "raised"
    /\ (Called => E.outcome # "raised")
    /\ (pc = "returned" /\ rc = Some(0) /\ files # <<>>) => count = Len(files)

---------------------------------------------------------------------------
(* C3 *)

\* C3 as claimed: run returns 1 if and only if the output directory does not
\* exist, then without touching any file, and returns 0 otherwise.
C3_ExitOneIffOutputMissing ==
    pc = "returned"
        => /\ rc = Some(1) <=> ~Exists(output_dir)
           /\ rc = Some(1) => (last = None /\ count = 0 /\ fsfiles = fs0)
           /\ rc # Some(1) => rc = Some(0)

\* C3 amended: run returns 1 if and only if the input directory exists, holds
\* at least one *.pdf file and the output directory does not exist, then
\* without reading, renaming or moving any file; every other return of run
\* is 0.
C3_ExitOneIffFilesAndOutputMissing ==
    pc = "returned"
        => /\ rc = Some(1) <=> (Exists(input_dir) /\ Found0 # {}
                                  /\ ~Exists(output_dir))
           /\ rc = Some(1) => (last = None /\ count = 0 /\ fsfiles = fs0)
           /\ rc # Some(1) => rc = Some(0)

\* run has returned 1 on a batch of files with the output directory missing
C3_Witness ==
    pc = "returned" /\ rc = Some(1) /\ Found0 # {} /\ ~Exists(output_dir)

---------------------------------------------------------------------------
(* C4 *)

\* C4: the path _make_unique_filename returns is a child of the output
\* directory that does not exist; its name is the unsuffixed name when that is
\* free, and otherwise the name suffixed _N, before the extension, for the N
\* such that the unsuffixed name and the names suffixed _1 .. _(N-1) all exist
\* and _N does not.
C4_UniqueFilename ==
    (Called /\ E.exc = NoExc)
        => /\ ~Exists(E.renamed)
           /\ Parent(E.renamed) = output_dir
           /\ \E n \in 0..Cardinality(DOMAIN fsfiles) :
                  /\ Name(E.renamed) = ExpectedName(n)
                  /\ ~InOut(ExpectedName(n))
                  /\ \A m \in 0..(n - 1) : InOut(ExpectedName(m))

\* the unsuffixed name and the name suffixed _1 exist and rename returned the
\* name suffixed _2
C4_Witness ==
    /\ Called /\ E.exc = NoExc
    /\ InOut(ExpectedName(0)) /\ InOut(ExpectedName(1))
    /\ Name(E.renamed) = ExpectedName(2)
    /\ ExpectedName(2) = Colliding(2)

---------------------------------------------------------------------------
(* C5 *)

\* C5: no move overwrites a file: the destination of every move did not exist
\* when the move was made, every file the output side held before the run is
\* still there with its content, and no file's content has been lost.
C5_NoMoveOverwrites ==
    /\ (Called /\ E.outcome = "moved") => ~E.dst_existed
    /\ \A p \in DOMAIN fs0 :
           Parent(p) # input_dir => (p \in DOMAIN fsfiles /\ fsfiles[p] = p)
    /\ \A p \in DOMAIN fs0 : \E q \in DOMAIN fsfiles : fsfiles[q] = p

---------------------------------------------------------------------------
(* C6 *)

\* C6 as claimed: with "_" in the stem, title and publisher are the trimmed
\* sides of the last "_"; else with "-" in the stem, of the last "-"; else
\* publisher is "no-publisher" and title is the full stem.
C6_SplitFullStem ==
    HeuristicsOnly
        => LET stem == Stem(E.in_path) IN
           IF Occurs("_", stem)
           THEN IsLastSplit(E.raw_title, E.raw_publisher, stem, "_")
           ELSE IF Occurs("-", stem)
           THEN IsLastSplit(E.raw_title, E.raw_publisher, stem, "-")
           ELSE E.raw_publisher = NoPublisher /\ E.raw_title = stem

\* C6 amended: as claimed, except that without "_" and "-" the title is the
\* full stem trimmed of leading and trailing whitespace, like the parts of
\* the two split cases.
C6_SplitTrimmedStem ==
    HeuristicsOnly
        => LET stem == Stem(E.in_path) IN
           IF Occurs("_", stem)
           THEN IsLastSplit(E.raw_title, E.raw_publisher, stem, "_")
           ELSE IF Occurs("-", stem)
           THEN IsLastSplit(E.raw_title, E.raw_publisher, stem, "-")
           ELSE E.raw_publisher = NoPublisher /\ IsTrimOf(E.raw_title, stem)

\* the splitter split " _a" on its "_" and trimmed the title to nothing
C6_Witness ==
    /\ HeuristicsOnly
    /\ Stem(E.in_path) = <<" ", "_", "a">>
    /\ E.raw_title = <<>> /\ E.raw_publisher = <<"a">>

---------------------------------------------------------------------------
(* C7 *)

\* C7: without a collision the name rename returns is
\* {date}_{kebab(publisher)}_{kebab(title)}{extension}, where kebab keeps the
\* non-whitespace characters in order, puts one hyphen for each whitespace run
\* between two words, leaves no whitespace, and is the identity on a string
\* without whitespace.
C7_KebabName ==
    (Called /\ E.exc = NoExc)
        => /\ IsKebabOf(E.title, E.raw_title)
           /\ IsKebabOf(E.publisher, E.raw_publisher)
           /\ IsKebabOf(E.title, E.title)
           /\ ~InOut(ExpectedName(0))
                  => Name(E.renamed)
                         = E.publish_date \o <<"_">> \o E.publisher \o <<"_">>
                               \o E.title \o Suffix(E.in_path)

\* a title with leading, doubled and trailing whitespace and a comma, a
\* publisher with an inner space, the date 2025-02-10, no collision
C7_Witness ==
    /\ Called /\ E.exc = NoExc
    /\ E.raw_title = <<" ", "a", " ", " ", ",", "a", " ">>
    /\ E.title = <<"a", "-", ",", "a">>
    /\ E.raw_publisher = <<"a", " ", "-">>
    /\ E.publish_date = <<"2", "0", "2", "5", "0", "2", "1", "0">>
    /\ Name(E.renamed)
           = <<"2", "0", "2", "5", "0", "2", "1", "0", "_", "a", "-", "-", "_",
               "a", "-", ",", "a", ".", "p", "d", "f">>

---------------------------------------------------------------------------
(* C8 *)

---------------------------------------------------------------------------
(* C9 *)

\* C9: the title and the publisher rename puts in the name are never the
\* empty string.
C9_ComponentsNeverEmpty ==
    (Called /\ E.exc = NoExc) => (E.title # <<>> /\ E.publisher # <<>>)

---------------------------------------------------------------------------
(* C10 *)

\* C10: a file whose rename returned is moved to exactly the path rename
\* returned, a direct child of the output directory, whether output_dir is
\* absolute or relative: once moved it is gone from its input path and stands
\* at the returned path; a file whose rename raised stays at its input path.
C10_MovedToReturnedPath ==
    Called
        => /\ E.exc = NoExc
                  => /\ E.dst = E.renamed
                     /\ Parent(E.dst) = output_dir
           /\ E.outcome = "moved"
                  => /\ E.in_path \notin DOMAIN fsfiles
                     /\ E.renamed \in DOMAIN fsfiles
                     /\ fsfiles[E.renamed] = E.in_path
           /\ E.outcome = "skipped"
                  => (E.in_path \in DOMAIN fsfiles /\ fsfiles[E.in_path] = E.in_path)

====
